---- MODULE Spec2Model ----
(***************************************************************************)
(* transformers4rec/torch/utils/schema_utils.py                            *)
(*                                                                         *)
(* Two independent functions are modelled, each as a sequential program:   *)
(*   random_data_from_schema  (SpecGen)  and  _augment_schema  (SpecAug).  *)
(*                                                                         *)
(* Tensors of fixed-shape features are represented by their shape; the     *)
(* flat values of list features are represented element by element.        *)
(* torch.rand draws from [0,1): a drawn value v stands for v/10.           *)
(***************************************************************************)
EXTENDS Integers, Sequences, FiniteSets, TLC

\* Optional[T]: None, or Some(x) holding x
None == <<>>
Some(x) == <<x>>
Get(o) == o[1]

\* a Python value that may be a list, a str or None
PyListOf(names) == [type |-> "list", val |-> names]
PyStr(str) == [type |-> "str", val |-> str]
PyNone == [type |-> "NoneType", val |-> <<>>]

\* bounds of the enumeration of inputs
MaxRows == 3
MaxSessionLength == 2

\* default of the parameter min_session_length
DefaultMinSessionLength == 5

VARIABLES
    \* ---- random_data_from_schema ----
    schema,              \* sequence of features
    num_rows,
    max_session_length,
    min_session_length,
    i,                   \* row index of the outer loop
    j,                   \* position in the inner loop / in data.items() (1-based)
    session_length,
    data,                \* dict: feature name -> accumulated value
    outputs,             \* dict: feature name -> tensor
    offsets_seen,        \* history: key -> offsets returned by _pull_values_offsets
    sessions,            \* history: session_length drawn for each row
    drawn,               \* history: feature name -> the list rows as drawn
    pc,
    \* ---- _augment_schema ----
    in_schema,           \* the caller's schema: name -> ColumnSchema
    heap,                \* properties dicts by reference
    heap0,               \* the properties dicts as they were at the call
    a_schema,            \* the local variable schema
    cats, conts, labels, sparse_names, sparse_max, sparse_as_dense,
    sk,                  \* position in the loop over sparse_names (1-based)
    apc

genVars == <<schema, num_rows, max_session_length, min_session_length, i, j,
             session_length, data, outputs, offsets_seen, sessions, drawn, pc>>
augVars == <<in_schema, heap, heap0, a_schema, cats, conts, labels,
             sparse_names, sparse_max, sparse_as_dense, sk, apc>>
vars == <<genVars, augVars>>

-----------------------------------------------------------------------------
(* Python helpers *)

\* truth value of an Optional[int]
Truthy(x) == x # None /\ Get(x) # 0

\* x or y, for an Optional[int] x and an int y
PyOr(x, y) == IF Truthy(x) THEN Get(x) ELSE y

\* has_field(feature, f)
has_field(feature, f) == feature[f] # None

Range(s) == {s[k] : k \in DOMAIN s}

RECURSIVE SumOver(_, _)
SumOver(S, f) ==
    IF S = {} THEN 0
    ELSE LET x == CHOOSE y \in S : TRUE IN f[x] + SumOver(S \ {x}, f)

-----------------------------------------------------------------------------
(* Values held in data / outputs *)

\* a torch tensor of a fixed-shape feature, known by its shape
Tensor(shape) ==
    [kind |-> "tensor", shape |-> shape, values |-> <<>>, lengths |-> <<>>,
     elems |-> <<>>, dense |-> <<>>]

\* the tuple (flat values tensor, list of per-row lengths) of a list feature
Tuple(values, lengths) ==
    [kind |-> "tuple", shape |-> <<Len(values)>>, values |-> values,
     lengths |-> lengths, elems |-> <<>>, dense |-> <<>>]

\* a Python list of per-row tensors (embedding feature before stacking)
PyList(elems) ==
    [kind |-> "list", shape |-> <<>>, values |-> <<>>, lengths |-> <<>>,
     elems |-> elems, dense |-> <<>>]

\* the dense matrix produced by sparse_tensor.to_dense()
Dense(matrix, n, w) ==
    [kind |-> "tensor", shape |-> <<n, w>>, values |-> <<>>, lengths |-> <<>>,
     elems |-> <<>>, dense |-> matrix]

\* torch.cat((a, b)) of two fixed-shape tensors along dim 0
TorchCat(a, b) == Tensor(<<a.shape[1] + b.shape[1]>> \o Tail(a.shape))

\* torch.stack(list, dim=0)
TorchStack(elems) == Tensor(<<Len(elems)>> \o elems[1])

-----------------------------------------------------------------------------
(* Schemas offered to random_data_from_schema *)

Feature(name, value_count, int_domain, shape) ==
    [name |-> name, value_count |-> value_count, int_domain |-> int_domain,
     shape |-> shape]

Schemas ==
    { <<>>,
      << Feature("price", None, None, None),
         Feature("item_id", None, Some(3), None) >>,
      << Feature("item_id_list", Some(2), Some(3), None) >>,
      << Feature("emb", None, None, Some(<<2>>)),
         Feature("price_list", Some(1), None, None),
         Feature("cat_list", Some(3), Some(2), None) >>,
      << Feature("emb2d", None, Some(3), Some(<<2, 3>>)),
         Feature("dense", None, None, Some(<<1, 2>>)) >> }

\* the values torch.rand can return, in tenths
RandValues == {0, 5}

\* torch.randint(low, high, (n,))
TorchRandint(low, high, n) == [1..n -> low..(high - 1)]

\* torch.rand((n,))
TorchRand(n) == [1..n -> RandValues]

\* (faulty variant) the dict is rebuilt with the one key
PutFresh(d, key, value) == [k \in {key} |-> value]

\* dict[key] = value
Put(d, key, value) ==
    [k \in DOMAIN d \cup {key} |-> IF k = key THEN value ELSE d[k]]

-----------------------------------------------------------------------------
(* random_data_from_schema: the per-feature body of the row loop *)

is_list_feature(feature) == has_field(feature, "value_count")

is_int_feature(feature) == has_field(feature, "int_domain")

is_embedding(feature) ==
    IF has_field(feature, "shape") THEN Get(feature.shape)[1] > 1 ELSE FALSE

ShapeOf(feature) ==
    IF has_field(feature, "shape") THEN Get(feature.shape) ELSE <<1>>

\* list_length = session_length or feature.value_count.max
ListLength(feature, sl) == PyOr(sl, Get(feature.value_count))

\* the rows the random draws of one feature can produce
RowsFor(feature, sl) ==
    IF is_list_feature(feature)
    THEN LET list_length == ListLength(feature, sl)
             draws == IF is_int_feature(feature)
                      THEN TorchRandint(1, Get(feature.int_domain), list_length)
                      ELSE TorchRand(list_length)
         IN  {Tuple(row, <<Len(row)>>) : row \in draws}
    ELSE {Tensor(ShapeOf(feature))}

\* (faulty variant) a loop that runs once more than range(num_rows)
InRowLoopInclusive(row_i, n) == row_i <= n

\* the loop test of: for i in range(num_rows)
InRowLoop(row_i, n) == row_i < n

\* i == num_rows - 1
IsLastRow(row_i, n) == row_i = n - 1

\* data after one row of one feature has been accumulated
Accumulate(d, feature, row, row_i, n) ==
    IF feature.name \in DOMAIN d
    THEN IF is_list_feature(feature)
         THEN Put(d, feature.name,
                  Tuple(d[feature.name].values \o row.values,
                        d[feature.name].lengths \o row.lengths))
         ELSE IF is_embedding(feature)
         THEN LET f == d[feature.name]
                  elems == IF f.kind = "list"
                           THEN Append(f.elems, row.shape)
                           ELSE <<f.shape, row.shape>>
              IN  Put(d, feature.name,
                      IF IsLastRow(row_i, n) THEN TorchStack(elems)
                      ELSE PyList(elems))
         ELSE Put(d, feature.name, TorchCat(d[feature.name], row))
    ELSE Put(d, feature.name, row)

-----------------------------------------------------------------------------
(* Ragged-to-dense conversion *)

RECURSIVE OffsetsLoop(_, _)
OffsetsLoop(offsets, rest) ==
    IF rest = <<>> THEN offsets
    ELSE OffsetsLoop(Append(offsets, offsets[Len(offsets)] + Head(rest)),
                     Tail(rest))

\* offsets = [0]; for length in val[1][:-1]: offsets.append(offsets[-1] + length)
ListOffsets(lengths) == OffsetsLoop(<<0>>, SubSeq(lengths, 1, Len(lengths) - 1))

\* called with the tuple (values, offsets) only: the isinstance branch taken
_pull_values_offsets(values, offsets) ==
    LET n   == Len(offsets)
        ext == offsets \o <<Len(values)>>
    IN  [values |-> values,
         offsets |-> ext,
         diff_offsets |-> [k \in 1..(Len(ext) - 1) |-> ext[k + 1] - ext[k]],
         num_rows |-> n]

\* s repeated t times
Repeat(x, t) == [k \in 1..t |-> x]

RECURSIVE repeat_interleave(_, _)
repeat_interleave(s, counts) ==
    IF s = <<>> THEN <<>>
    ELSE Repeat(Head(s), Head(counts)) \o repeat_interleave(Tail(s), Tail(counts))

\* torch.arange(n)
Arange(n) == [k \in 1..n |-> k - 1]

\* (faulty variant) the column index is not taken relative to the row start
_get_indices_absolute(offsets, diff_offsets) ==
    LET row_ids == Arange(Len(offsets) - 1)
        row_ids_repeated == repeat_interleave(row_ids, diff_offsets)
        col_ids == Arange(Len(row_ids_repeated))
    IN  [k \in 1..Len(row_ids_repeated) |-> <<row_ids_repeated[k], col_ids[k]>>]

_get_indices(offsets, diff_offsets) ==
    LET row_ids == Arange(Len(offsets) - 1)
        row_ids_repeated == repeat_interleave(row_ids, diff_offsets)
        row_offset_repeated ==
            repeat_interleave(SubSeq(offsets, 1, Len(offsets) - 1), diff_offsets)
        col_ids == [k \in 1..Len(row_offset_repeated) |->
                        Arange(Len(row_offset_repeated))[k] - row_offset_repeated[k]]
    IN  [k \in 1..Len(row_ids_repeated) |-> <<row_ids_repeated[k], col_ids[k]>>]

InBounds(ix, n, w) == ix[1] \in 0..(n - 1) /\ ix[2] \in 0..(w - 1)

\* to_dense() of a COO tensor: each cell is the sum of the values placed on it
ToDense(values, cells, n, w) ==
    [r \in 1..n |-> [c \in 1..w |->
        SumOver({k \in DOMAIN values : cells[k] = <<r - 1, c - 1>>}, values)]]

\* Where an entry whose column index is outside the declared size ends up is
\* not defined by the code: the build either rejects the indices, or leaves
\* the entry out, or places it by its flat position row * seq_limit + col.
Dropped(indices, n, w) ==
    [k \in DOMAIN indices |-> IF InBounds(indices[k], n, w) THEN indices[k] ELSE <<-1, -1>>]

Wrapped(indices, n, w) ==
    [k \in DOMAIN indices |->
        LET p == indices[k][1] * w + indices[k][2]
        IN  IF w > 0 /\ p < n * w THEN <<p \div w, p % w>> ELSE <<-1, -1>>]

\* the outcomes of _get_sparse_tensor
_get_sparse_tensor(values, indices, n, seq_limit) ==
    IF \A k \in DOMAIN indices : InBounds(indices[k], n, seq_limit)
    THEN {[ok |-> TRUE, tensor |-> Dense(ToDense(values, indices, n, seq_limit), n, seq_limit)]}
    ELSE {[ok |-> FALSE, tensor |-> Tensor(<<>>)],
          [ok |-> TRUE,
           tensor |-> Dense(ToDense(values, Dropped(indices, n, seq_limit), n, seq_limit),
                            n, seq_limit)],
          [ok |-> TRUE,
           tensor |-> Dense(ToDense(values, Wrapped(indices, n, seq_limit), n, seq_limit),
                            n, seq_limit)]}

\* (faulty variant) the width is always the first row's length
SeqLimitFirstRow(msl, val) == val.lengths[1]

\* seq_limit = max_session_length or val[1][0]
SeqLimit(msl, val) == PyOr(msl, val.lengths[1])

\* the keys of data, in insertion order
Keys(d, sch) == SelectSeq([k \in DOMAIN sch |-> sch[k].name], LAMBDA nm : nm \in DOMAIN d)

-----------------------------------------------------------------------------
(* random_data_from_schema as a program *)

\* the state on entry, data = {} done (line 35)
InitGen ==
    /\ schema \in Schemas
    /\ num_rows \in 0..MaxRows
    /\ max_session_length \in {None} \cup {Some(m) : m \in 0..MaxSessionLength}
    /\ min_session_length \in 0..MaxSessionLength \cup {DefaultMinSessionLength}
    /\ i = 0 /\ j = 1 /\ session_length = None
    /\ data = <<>> /\ outputs = <<>> /\ offsets_seen = <<>>
    /\ sessions = <<>> /\ drawn = <<>>
    /\ pc = "row"
    \* _augment_schema is not called
    /\ in_schema = <<>> /\ heap = <<>> /\ heap0 = <<>> /\ a_schema = <<>>
    /\ cats = <<>> /\ conts = <<>> /\ labels = PyNone
    /\ sparse_names = None /\ sparse_max = None /\ sparse_as_dense = FALSE
    /\ sk = 0 /\ apc = "idle"

\* lines 37-40: enter a row and draw its session length
RowStart ==
    /\ pc = "row" /\ InRowLoop(i, num_rows)
    /\ IF Truthy(max_session_length)
       THEN IF min_session_length > Get(max_session_length)
            THEN \* random.randint raises ValueError on an empty range
                 /\ pc' = "raised"
                 /\ UNCHANGED <<session_length, sessions, j>>
            ELSE /\ \E s \in min_session_length..Get(max_session_length) :
                        session_length' = Some(s)
                 /\ sessions' = Append(sessions, session_length')
                 /\ j' = 1
                 /\ pc' = "feature"
       ELSE /\ session_length' = None
            /\ sessions' = Append(sessions, None)
            /\ j' = 1
            /\ pc' = "feature"
    /\ UNCHANGED <<schema, num_rows, max_session_length, min_session_length, i,
                   data, outputs, offsets_seen, drawn>>

\* lines 42-84: one feature of the current row
FeatureStep ==
    /\ pc = "feature" /\ j <= Len(schema)
    /\ LET feature == schema[j] IN
       \E row \in RowsFor(feature, session_length) :
          /\ data' = Accumulate(data, feature, row, i, num_rows)
          /\ drawn' = IF is_list_feature(feature)
                      THEN Put(drawn, feature.name,
                               IF feature.name \in DOMAIN drawn
                               THEN Append(drawn[feature.name], row.values)
                               ELSE <<row.values>>)
                      ELSE drawn
    /\ j' = j + 1
    /\ UNCHANGED <<schema, num_rows, max_session_length, min_session_length, i,
                   session_length, outputs, offsets_seen, sessions, pc>>

\* end of the inner loop: next row
RowEnd ==
    /\ pc = "feature" /\ j > Len(schema)
    /\ i' = i + 1
    /\ pc' = "row"
    /\ UNCHANGED <<schema, num_rows, max_session_length, min_session_length, j,
                   session_length, data, outputs, offsets_seen, sessions, drawn>>

\* the row loop is over; line 86
RowsDone ==
    /\ pc = "row" /\ ~InRowLoop(i, num_rows)
    /\ j' = 1
    /\ pc' = "convert"
    /\ UNCHANGED <<schema, num_rows, max_session_length, min_session_length, i,
                   session_length, data, outputs, offsets_seen, sessions, drawn>>

\* lines 87-98: one item of data.items()
ConvertStep ==
    /\ pc = "convert" /\ j <= Len(Keys(data, schema))
    /\ LET key == Keys(data, schema)[j]
           val == data[key]
       IN  IF val.kind = "tuple"
           THEN LET offsets == ListOffsets(val.lengths)
                    pvo == _pull_values_offsets(val.values, offsets)
                    indices == _get_indices(pvo.offsets, pvo.diff_offsets)
                    seq_limit == SeqLimit(max_session_length, val)
                IN  \E out \in _get_sparse_tensor(pvo.values, indices,
                                                  pvo.num_rows, seq_limit) :
                       /\ num_rows' = pvo.num_rows
                       /\ offsets_seen' = Put(offsets_seen, key, pvo.offsets)
                       /\ IF out.ok
                          THEN /\ outputs' = Put(outputs, key, out.tensor)
                               /\ j' = j + 1
                               /\ pc' = pc
                          ELSE /\ pc' = "raised"
                               /\ UNCHANGED <<outputs, j>>
           ELSE /\ outputs' = Put(outputs, key, data[key])
                /\ j' = j + 1
                /\ UNCHANGED <<num_rows, offsets_seen, pc>>
    /\ UNCHANGED <<schema, max_session_length, min_session_length, i,
                   session_length, data, sessions, drawn>>

\* line 100: return outputs
Return ==
    /\ pc = "convert" /\ j > Len(Keys(data, schema))
    /\ pc' = "done"
    /\ UNCHANGED <<schema, num_rows, max_session_length, min_session_length, i, j,
                   session_length, data, outputs, offsets_seen, sessions, drawn>>

-----------------------------------------------------------------------------
(* merlin.schema: the operations _augment_schema calls *)

\* ColumnSchema(name=, tags=, dtype=, is_list=, is_ragged=, properties=);
\* properties is a reference to a dict held in heap
ColumnSchema(name, tags, dtype, is_list, is_ragged, properties) ==
    [name |-> name, tags |-> tags, dtype |-> dtype, is_list |-> is_list,
     is_ragged |-> is_ragged, properties |-> properties]

\* ColumnSchema.with_tags(tag): a new column with the tag added; the other
\* fields, the properties dict among them, are handed over as they are
with_tags(cs, tag) ==
    ColumnSchema(cs.name, cs.tags \cup {tag}, cs.dtype, cs.is_list, cs.is_ragged,
                 cs.properties)

\* Schema.select_by_name(names): None when a name is not a column
select_by_name(sch, names) ==
    IF Range(names) \subseteq DOMAIN sch
    THEN Some([n \in Range(names) |-> sch[n]])
    ELSE None

TARGET == "target"
CATEGORICAL == "categorical"
CONTINUOUS == "continuous"

-----------------------------------------------------------------------------
(* Arguments offered to _augment_schema *)


InputSchemas ==
    { [schema |->
         [n \in {"a", "b", "c", "d"} |->
            CASE n = "a" -> ColumnSchema("a", {}, "int64", FALSE, FALSE, 1)
              [] n = "b" -> ColumnSchema("b", {}, "float32", FALSE, FALSE, 2)
              [] n = "c" -> ColumnSchema("c", {}, "int64", FALSE, FALSE, 3)
              [] n = "d" -> ColumnSchema("d", {"item_id"}, "int64", TRUE, TRUE, 4)],
       heap |-> << <<>>, <<>>, <<>>, [value_count |-> [min |-> 0, max |-> 5]] >>],
      [schema |->
         [n \in {"a", "b", "c", "d"} |->
            CASE n = "a" -> ColumnSchema("a", {CATEGORICAL}, "int64", TRUE, FALSE, 1)
              [] n = "b" -> ColumnSchema("b", {CONTINUOUS}, "float32", TRUE, TRUE, 2)
              [] n = "c" -> ColumnSchema("c", {"binary"}, "int64", FALSE, FALSE, 3)
              [] n = "d" -> ColumnSchema("d", {}, "int64", FALSE, FALSE, 4)],
       heap |-> << [value_count |-> [min |-> 20, max |-> 20]],
                   [value_count |-> [min |-> 0, max |-> 5]],
                   [domain |-> [min |-> 0, max |-> 1]],
                   <<>> >>] }

CatsArgs == { <<>>, <<"a">>, <<"a", "d">>, <<"z">> }
ContsArgs == { <<>>, <<"b">>, <<"b", "a">> }
LabelsArgs == { PyListOf(<<>>), PyListOf(<<"c">>), PyStr("c"), PyNone }
SparseNamesArgs == { None, Some(<<"a">>), Some(<<"a", "b">>), Some(<<"d">>) }
SparseMaxArgs ==
    { None, Some([n \in {"a"} |-> 10]), Some([n \in {"b", "d"} |-> IF n = "b" THEN 7 ELSE 3]) }

-----------------------------------------------------------------------------
(* _augment_schema as a program *)

InitAug ==
    /\ \E inp \in InputSchemas :
          /\ in_schema = inp.schema
          /\ heap = inp.heap
          /\ heap0 = inp.heap
          /\ a_schema = inp.schema
    /\ cats \in CatsArgs
    /\ conts \in ContsArgs
    /\ labels \in LabelsArgs
    /\ sparse_names \in SparseNamesArgs
    /\ sparse_max \in SparseMaxArgs
    /\ sparse_as_dense \in BOOLEAN
    /\ sk = 1
    /\ apc = "select"
    \* random_data_from_schema is not called
    /\ schema = <<>> /\ num_rows = 0
    /\ max_session_length = None /\ min_session_length = 0
    /\ i = 0 /\ j = 0 /\ session_length = None
    /\ data = <<>> /\ outputs = <<>> /\ offsets_seen = <<>>
    /\ sessions = <<>> /\ drawn = <<>>
    /\ pc = "idle"

\* conts + cats + labels: only lists concatenate
CanConcat(lbls) == lbls.type = "list"

\* line 143
Select ==
    /\ apc = "select"
    /\ IF ~CanConcat(labels)
       THEN \* TypeError
            /\ apc' = "raised"
            /\ UNCHANGED a_schema
       ELSE LET sel == select_by_name(a_schema, conts \o cats \o labels.val) IN
            IF sel = None
            THEN /\ apc' = "raised"
                 /\ UNCHANGED a_schema
            ELSE /\ a_schema' = Get(sel)
                 /\ apc' = "labels"
    /\ UNCHANGED <<in_schema, heap, heap0, cats, conts, labels, sparse_names,
                   sparse_max, sparse_as_dense, sk>>

\* (faulty variant) only the first name is tagged
TagLoopFirst(sch, names, tag) ==
    IF names = <<>> THEN sch
    ELSE [sch EXCEPT ![Head(names)] = with_tags(sch[Head(names)], tag)]

\* for label in names: schema[label] = schema[label].with_tags(tag)
RECURSIVE TagLoop(_, _, _)
TagLoop(sch, names, tag) ==
    IF names = <<>> THEN sch
    ELSE TagLoop([sch EXCEPT ![Head(names)] = with_tags(sch[Head(names)], tag)],
                 Tail(names), tag)

\* labels = [labels] if isinstance(labels, str) else labels;  labels or []
LabelList(lbls) ==
    IF lbls.type = "str" THEN <<lbls.val>>
    ELSE IF lbls.type = "list" THEN lbls.val
    ELSE <<>>

\* lines 145-147
TagLabels ==
    /\ apc = "labels"
    /\ labels' = IF labels.type = "str" THEN PyListOf(<<labels.val>>) ELSE labels
    /\ a_schema' = TagLoop(a_schema, LabelList(labels), TARGET)
    /\ apc' = "cats"
    /\ UNCHANGED <<in_schema, heap, heap0, cats, conts, sparse_names, sparse_max,
                   sparse_as_dense, sk>>

\* lines 148-149
TagCats ==
    /\ apc = "cats"
    /\ a_schema' = TagLoop(a_schema, cats, CATEGORICAL)
    /\ apc' = "conts"
    /\ UNCHANGED <<in_schema, heap, heap0, cats, conts, labels, sparse_names,
                   sparse_max, sparse_as_dense, sk>>

\* lines 150-151
TagConts ==
    /\ apc = "conts"
    /\ a_schema' = TagLoop(a_schema, conts, CONTINUOUS)
    /\ apc' = "sparse"
    /\ UNCHANGED <<in_schema, heap, heap0, cats, conts, labels, sparse_names,
                   sparse_max, sparse_as_dense, sk>>

\* sparse_names or []
SparseList(names) == IF names = None THEN <<>> ELSE Get(names)

\* sparse_max and col in sparse_max
HasSparseMax(smax, col) == smax # None /\ col \in DOMAIN Get(smax)

\* properties["value_count"] = {"max": sparse_max[col]}, on the dict itself
SetValueCount(h, ref, smax, col) ==
    [h EXCEPT ![ref] = Put(h[ref], "value_count", [max |-> Get(smax)[col]])]

\* (faulty variant) the flag is not negated
RaggedFlagSame(as_dense) == as_dense

\* is_ragged=not sparse_as_dense
RaggedFlag(as_dense) == ~as_dense

\* lines 154-166: one column of sparse_names
SparseStep ==
    /\ apc = "sparse" /\ sk <= Len(SparseList(sparse_names))
    /\ LET col == SparseList(sparse_names)[sk] IN
       IF col \notin DOMAIN a_schema
       THEN \* schema[col] raises
            /\ apc' = "raised"
            /\ UNCHANGED <<heap, a_schema, sk>>
       ELSE LET cs == a_schema[col]
                properties == cs.properties
            IN  /\ heap' = IF HasSparseMax(sparse_max, col)
                           THEN SetValueCount(heap, properties, sparse_max, col)
                           ELSE heap
                /\ a_schema' = [a_schema EXCEPT ![col] =
                                  ColumnSchema(cs.name, cs.tags, cs.dtype, TRUE,
                                               RaggedFlag(sparse_as_dense), properties)]
                /\ sk' = sk + 1
                /\ apc' = apc
    /\ UNCHANGED <<in_schema, heap0, cats, conts, labels, sparse_names, sparse_max,
                   sparse_as_dense>>

\* line 168
AugReturn ==
    /\ apc = "sparse" /\ sk > Len(SparseList(sparse_names))
    /\ apc' = "done"
    /\ UNCHANGED <<in_schema, heap, heap0, a_schema, cats, conts, labels,
                   sparse_names, sparse_max, sparse_as_dense, sk>>

-----------------------------------------------------------------------------
(* Specifications *)

NextGen ==
    \/ (RowStart /\ UNCHANGED augVars)
    \/ (FeatureStep /\ UNCHANGED augVars)
    \/ (RowEnd /\ UNCHANGED augVars)
    \/ (RowsDone /\ UNCHANGED augVars)
    \/ (ConvertStep /\ UNCHANGED augVars)
    \/ (Return /\ UNCHANGED augVars)

SpecGen == InitGen /\ [][NextGen]_vars

NextAug ==
    \/ (Select /\ UNCHANGED genVars)
    \/ (TagLabels /\ UNCHANGED genVars)
    \/ (TagCats /\ UNCHANGED genVars)
    \/ (TagConts /\ UNCHANGED genVars)
    \/ (SparseStep /\ UNCHANGED genVars)
    \/ (AugReturn /\ UNCHANGED genVars)

SpecAug == InitAug /\ [][NextAug]_vars

-----------------------------------------------------------------------------
(* Properties of random_data_from_schema (checked under SpecGen) *)

FeatureNames(sch) == {sch[k].name : k \in DOMAIN sch}

ListFeatures(sch) == {k \in DOMAIN sch : is_list_feature(sch[k])}

EmbeddingFeatures(sch) ==
    {k \in DOMAIN sch : ~is_list_feature(sch[k]) /\ is_embedding(sch[k])}

\* a value is an n x w matrix
IsMatrix(val, n, w) ==
    /\ val.kind = "tensor"
    /\ val.shape = <<n, w>>
    /\ Len(val.dense) = n
    /\ \A r \in 1..n : Len(val.dense[r]) = w

\* C1: when the call returns for num_rows >= 1, the keys of the returned
\* mapping are exactly the feature names of the schema.
C1_OneEntryPerFeature ==
    (pc = "done" /\ num_rows >= 1) => DOMAIN outputs = FeatureNames(schema)

C1_Witness ==
    /\ pc = "done" /\ num_rows >= 2
    /\ Len(schema) >= 3
    /\ DOMAIN outputs = FeatureNames(schema)

\* C2: for every num_rows N >= 1, N = 1 included, a returned embedding feature
\* (not a list, leading declared dimension > 1) has shape (N,) + declared shape.
C2_EmbeddingLeadingDim ==
    (pc = "done" /\ num_rows >= 1) =>
        \A k \in EmbeddingFeatures(schema) :
            /\ schema[k].name \in DOMAIN outputs
            /\ outputs[schema[k].name].shape = <<num_rows>> \o ShapeOf(schema[k])

\* C3 as stated: the returned value of every list feature is an N x W matrix
\* with W = max_session_length whenever max_session_length is not None, and
\* W = value_count.max otherwise.
C3_WidthWhenGiven ==
    (pc = "done" /\ num_rows >= 1) =>
        \A k \in ListFeatures(schema) :
            /\ schema[k].name \in DOMAIN outputs
            /\ IsMatrix(outputs[schema[k].name], num_rows,
                        IF max_session_length # None
                        THEN Get(max_session_length)
                        ELSE Get(schema[k].value_count))

\* C3 amended: the returned value of every list feature is an N x W matrix
\* with W = max_session_length when max_session_length is given and not 0,
\* and W = value_count.max when it is None or 0.
C3_WidthWhenNonZero ==
    (pc = "done" /\ num_rows >= 1) =>
        \A k \in ListFeatures(schema) :
            /\ schema[k].name \in DOMAIN outputs
            /\ IsMatrix(outputs[schema[k].name], num_rows,
                        IF max_session_length # None /\ Get(max_session_length) # 0
                        THEN Get(max_session_length)
                        ELSE Get(schema[k].value_count))

C3_Witness ==
    /\ pc = "done" /\ num_rows >= 2
    /\ max_session_length = Some(2)
    /\ \E k \in ListFeatures(schema) :
          /\ Get(schema[k].value_count) # 2
          /\ schema[k].name \in DOMAIN outputs
          /\ outputs[schema[k].name].shape = <<num_rows, 2>>
          /\ \E r \in 1..num_rows : Len(drawn[schema[k].name][r]) = 1

\* sum of the lengths of the first n rows drawn for a list feature
RECURSIVE PrefixLen(_, _)
PrefixLen(rows, n) == IF n = 0 THEN 0 ELSE PrefixLen(rows, n - 1) + Len(rows[n])

\* C7: for a converted list feature whose rows are no longer than the padded
\* width, the offsets are the prefix sums of the row lengths starting at 0,
\* and row r of the matrix holds the values drawn for row r in columns
\* 0..len_r-1, in order, and zero in every later column.
C7_RowsKeepPlace ==
    \A k \in ListFeatures(schema) :
        LET name == schema[k].name IN
        (name \in DOMAIN outputs /\ outputs[name].shape # <<>>
            /\ \A r \in DOMAIN drawn[name] : Len(drawn[name][r]) <= outputs[name].shape[2])
        =>
        /\ Len(drawn[name]) = outputs[name].shape[1]
        /\ Len(offsets_seen[name]) = Len(drawn[name]) + 1
        /\ \A r \in 1..(Len(drawn[name]) + 1) :
              offsets_seen[name][r] = PrefixLen(drawn[name], r - 1)
        /\ Len(outputs[name].dense) = Len(drawn[name])
        /\ \A r \in DOMAIN drawn[name] :
              /\ Len(outputs[name].dense[r]) = outputs[name].shape[2]
              /\ \A c \in 1..outputs[name].shape[2] :
                    outputs[name].dense[r][c] =
                        IF c <= Len(drawn[name][r]) THEN drawn[name][r][c] ELSE 0

C7_Witness ==
    /\ pc = "done"
    /\ \E k \in ListFeatures(schema) :
          LET name == schema[k].name IN
          /\ name \in DOMAIN outputs
          /\ Len(drawn[name]) = 2
          /\ Len(drawn[name][1]) = 1 /\ Len(drawn[name][2]) = 2
          /\ drawn[name][1][1] = 2 /\ drawn[name][2] = <<1, 2>>
          /\ outputs[name].dense = << <<2, 0>>, <<1, 2>> >>

\* C8: when max_session_length is configured, every row's session length lies
\* in [min_session_length, max_session_length] and every list feature of the
\* row is drawn with exactly that many values, also for min_session_length = 0;
\* value_count.max is the length only when no bound is configured.
C8_ListLengthIsSessionLength ==
    \A r \in DOMAIN sessions :
        \A k \in ListFeatures(schema) :
            LET name == schema[k].name IN
            (name \in DOMAIN drawn /\ r \in DOMAIN drawn[name]) =>
                IF Truthy(max_session_length)
                THEN /\ sessions[r] # None
                     /\ Get(sessions[r]) \in
                            min_session_length..Get(max_session_length)
                     /\ Len(drawn[name][r]) = Get(sessions[r])
                ELSE Len(drawn[name][r]) = Get(schema[k].value_count)

\* C9: with num_rows = 0 nothing is accumulated, no conversion runs, and the
\* call returns an empty mapping.
C9_ZeroRowsEmpty ==
    num_rows = 0 =>
        /\ data = <<>> /\ outputs = <<>> /\ offsets_seen = <<>>
        /\ pc \in {"row", "convert", "done"}

C9_Witness ==
    /\ pc = "done" /\ num_rows = 0 /\ outputs = <<>>
    /\ Len(schema) >= 2 /\ ListFeatures(schema) # {}
    /\ Truthy(max_session_length)

-----------------------------------------------------------------------------
(* Properties of _augment_schema (checked under SpecAug) *)

\* the properties dict of a column, read through its reference
Properties(h, cs) == h[cs.properties]

C5_SparseColumns ==
    apc = "done" =>
        /\ \A col \in Range(SparseList(sparse_names)) :
              /\ col \in DOMAIN a_schema
              /\ a_schema[col].is_list = TRUE
              /\ a_schema[col].is_ragged = ~sparse_as_dense
              /\ IF sparse_max # None /\ col \in DOMAIN Get(sparse_max)
                 THEN /\ "value_count" \in DOMAIN Properties(heap, a_schema[col])
                      /\ Properties(heap, a_schema[col])["value_count"]
                            = [max |-> Get(sparse_max)[col]]
                 ELSE Properties(heap, a_schema[col]) = Properties(heap0, in_schema[col])
        /\ \A col \in DOMAIN a_schema \ Range(SparseList(sparse_names)) :
              /\ a_schema[col].is_list = in_schema[col].is_list
              /\ a_schema[col].is_ragged = in_schema[col].is_ragged

C5_Witness ==
    /\ apc = "done"
    /\ sparse_names = Some(<<"a", "b">>)
    /\ sparse_max # None /\ DOMAIN Get(sparse_max) = {"a"}
    /\ sparse_as_dense = TRUE
    /\ in_schema["b"].is_ragged = TRUE
    /\ a_schema["a"].is_list /\ ~a_schema["a"].is_ragged /\ ~a_schema["b"].is_ragged
    /\ Properties(heap, a_schema["a"])["value_count"] = [max |-> 10]
    /\ "d" \in DOMAIN a_schema

\* C6: once the call has ended, the caller's schema and each of its columns,
\* the properties dict with value_count included, are as they were.
C6_InputNotMutated ==
    apc \in {"done", "raised"} =>
        \A n \in DOMAIN in_schema :
            Properties(heap, in_schema[n]) = Properties(heap0, in_schema[n])

\* C10: a call with cats and conts lists of existing names and labels given
\* as the single string "c" succeeds, and column "c" is selected and tagged
\* TARGET in the returned schema.
C10_StringLabelAccepted ==
    (/\ apc \in {"done", "raised"}
     /\ Range(cats) \cup Range(conts) \subseteq DOMAIN in_schema
     /\ sparse_names = None
     /\ labels = PyStr("c"))
    =>
        /\ apc = "done"
        /\ "c" \in DOMAIN a_schema
        /\ TARGET \in a_schema["c"].tags

====
